---------------------------- MODULE Spec2Model ----------------------------
(***************************************************************************)
(* Atmosphere density profiles of ctapipe (src/ctapipe/atmosphere/model.py) *)
(* as a state machine: one profile instance is constructed and then        *)
(* queried (Spec); SpecThreads has threads query one shared instance.      *)
(*                                                                         *)
(* Numbers.  The program computes in IEEE doubles carrying astropy units.  *)
(* The model computes in integers of fixed physical units:                 *)
(*     height, distance, scale height   metres                             *)
(*     column density                   mg / cm^2                          *)
(*     density                          ng / cm^3                          *)
(* and real factors (exp, cos, log10) in fixed point with Scale digits.    *)
(* Every product is taken in the order the source takes it; a quotient     *)
(* rounds down where a double would round to nearest.                      *)
(***************************************************************************)
EXTENDS Integers, Sequences, FiniteSets, TLC

VARIABLES profile, result, threads, loader, plot

vars == <<profile, result, threads, loader, plot>>

(***************************************************************************)
(* Bounds of the model.                                                    *)
(***************************************************************************)
\* number of query heights / distances taken from HeightGrid
MaxHeightIdx == 11

(***************************************************************************)
(* Fixed-point arithmetic.                                                 *)
(***************************************************************************)
\* one unit of a real factor
Scale == 10 ^ 4

\* ln 2 and ln 10 in fixed point
Ln2 == (6931 * Scale) \div (10 ^ 4)
Ln10 == (23026 * Scale) \div (10 ^ 4)

\* number of terms of the exponential series
ExpTerms == 9

\* (ng/cm^3) * m  =  10^-4 mg/cm^2
DensityLengthPerColumn == 10 ^ 4

Abs(x) == IF x < 0 THEN -x ELSE x

\* floor(a * b / d) for b >= 0, d > 0 without forming a * b
MulDiv(a, b, d) == (a \div d) * b + ((a % d) * b) \div d

RECURSIVE ExpSeries(_, _, _)
\* sum_{j >= k} of the series of e^r, given term = r^(k-1)/(k-1)!
ExpSeries(r, k, term) ==
    IF k > ExpTerms THEN 0
    ELSE LET t == (term * r) \div (k * Scale)
         IN  t + ExpSeries(r, k + 1, t)

\* e^r for 0 <= r < ln 2
ExpSmall(r) == Scale + ExpSeries(r, 1, Scale)

\* np.exp(x), x in fixed point: range reduction by ln 2, then the series
np_exp(x) ==
    IF x >= 0
    THEN LET n == x \div Ln2
             r == x % Ln2
         IN  (2 ^ n) * ExpSmall(r)
    ELSE LET n == (-x) \div Ln2
             r == (-x) % Ln2
         IN  IF n > 30 THEN 0
             ELSE ((Scale * Scale) \div ExpSmall(r)) \div (2 ^ n)

\* the fixed-point quotient -h / c of two lengths
NegRatio(h, c) == ((-h) * Scale) \div c

\* np.cos of a zenith angle given in degrees, in fixed point.  In doubles
\* np.cos(90 deg) is 6.1e-17: below the resolution, 0 here.
np_cos(deg) ==
    CASE deg = 0  -> Scale
      [] deg = 45 -> (7071 * Scale) \div (10 ^ 4)
      [] deg = 60 -> Scale \div 2
      [] deg = 90 -> 0
      [] OTHER    -> 0

\* stands for every quotient beyond the column densities of the model (1e9
\* mg/cm^2 and more, inf included)
VeryLarge == 10 ^ 9

\* x / c of numpy for a column density x and a cosine c: no check of c; a
\* cosine below the resolution leaves 0 at 0 and carries any other x beyond
\* every column density
true_divide(x, c) ==
    IF c /= 0 THEN MulDiv(x, Scale, c)
    ELSE IF x = 0 THEN 0
    ELSE IF x > 0 THEN VeryLarge
    ELSE 0 - VeryLarge

(***************************************************************************)
(* Inputs.                                                                 *)
(***************************************************************************)
HeightGrid ==
    <<0, 4000, 10000, 5000, 20000, 40000, 100000, 2000, 0 - 2000, 110000, 60000, 1000>>

Heights == {HeightGrid[i] : i \in 1..MaxHeightIdx}

ZenithAngles == {0, 45, 60, 90}


\* h0, rho0 an ExponentialAtmosphereDensityProfile may be given
ScaleHeights == {8000, 6000}
ScaleDensities == {1250000, 1000000}

(***************************************************************************)
(* The instance and the outcome of the last call.                          *)
(***************************************************************************)
NoTable == [length_unit |-> "none", colnames |-> <<>>, rows |-> <<>>]
NoInterp == [x |-> <<>>, y |-> <<>>]

NoProfile ==
    [kind |-> "none", h0 |-> 0, rho0 |-> 0, table |-> NoTable,
     funcs |-> <<>>, d_funcs |-> <<>>,
     density_interp |-> NoInterp, col_density_interp |-> NoInterp]

\* the value or the exception of an evaluation
Ok(v) == [status |-> "ok", msg |-> "", value |-> v]
Err(status, msg) == [status |-> status, msg |-> msg, value |-> 0]

(***************************************************************************)
(* Classes and method resolution.                                          *)
(***************************************************************************)
BaseClass == "AtmosphereDensityProfile"

\* the methods each class body defines
OverridingExponentialMethods == {"__call__", "integral", "line_of_sight_integral"}
ExponentialMethods == {"__call__", "integral"}
TableMethods == {"__init__", "__call__", "integral", "__repr__"}
FiveLayerMethods == {"__init__", "from_array", "__call__", "integral"}
BaseMethods == {"__call__", "integral", "line_of_sight_integral", "peek"}

ClassMethods(cls) ==
    CASE cls = "ExponentialAtmosphereDensityProfile" -> ExponentialMethods
      [] cls = "TableAtmosphereDensityProfile" -> TableMethods
      [] cls = "FiveLayerAtmosphereDensityProfile" -> FiveLayerMethods
      [] OTHER -> BaseMethods

\* the class whose definition of `method` an instance of `cls` runs
Resolve(cls, method) ==
    IF method \in ClassMethods(cls) THEN cls ELSE BaseClass

(***************************************************************************)
(* ExponentialAtmosphereDensityProfile                                     *)
(***************************************************************************)
\* @dataclass without frozen=True: assigning to a field of the instance
\* stores the value (a frozen dataclass would raise and keep the field)
dataclass_setattr(self, name, value) == [self EXCEPT ![name] = value]

\* the dataclass defaults
Default_h0_ten == 10 * 1000
Default_h0 == 8000
Default_rho0 == 1250000

ExponentialProfile(h0, rho0) ==
    [NoProfile EXCEPT !.kind = "ExponentialAtmosphereDensityProfile",
                      !.h0 = h0, !.rho0 = rho0]

\* rho0 * exp(-h / h0)
Exponential_call(self, h) ==
    Ok(MulDiv(self.rho0, np_exp(NegRatio(h, self.h0)), Scale))

Exponential_integral_growing(self, h) ==
    Ok(MulDiv(MulDiv(self.rho0, self.h0, DensityLengthPerColumn),
              np_exp(-NegRatio(h, self.h0)), Scale))
Exponential_integral_no_h0(self, h) ==
    Ok(MulDiv(self.rho0 \div DensityLengthPerColumn,
              np_exp(NegRatio(h, self.h0)), Scale))
\* rho0 * h0 * exp(-h / h0)
Exponential_integral(self, h) ==
    Ok(MulDiv(MulDiv(self.rho0, self.h0, DensityLengthPerColumn),
              np_exp(NegRatio(h, self.h0)), Scale))

(***************************************************************************)
(* Units and tables.                                                       *)
(***************************************************************************)
\* mg/cm^2 per metre  =  10^4 ng/cm^3
ColumnPerLengthToDensity == 10 ^ 4

\* Column.to / Quantity.to of a length, to the unit of the model (metres)
to_length(v, unit) ==
    CASE unit = "km" -> v * 1000
      [] unit = "cm" -> v \div 100
      [] OTHER       -> v

\* the column `name` of the rows, as a sequence
Col(rows, name) == [i \in 1..Len(rows) |-> rows[i][name]]

\* seq[lo..hi] (1-based, inclusive)
Slice(seq, lo, hi) == [i \in 1..(hi - lo + 1) |-> seq[lo + i - 1]]

(***************************************************************************)
(* FiveLayerAtmosphereDensityProfile                                       *)
(***************************************************************************)
exponential_fn_no_offset(h, a, b, c) == MulDiv(b, np_exp(NegRatio(h, c)), Scale)
\* a + b * exp(-h / c)
exponential_fn(h, a, b, c) == a + MulDiv(b, np_exp(NegRatio(h, c)), Scale)

\* -b / c * exp(-h / c)
d_exponential_fn(h, a, b, c) ==
    -MulDiv(MulDiv(b, ColumnPerLengthToDensity, c), np_exp(NegRatio(h, c)), Scale)

linear_fn_rising(h, a, b, c) == a + MulDiv(b, h, c)
\* a - b * h / c
linear_fn(h, a, b, c) == a - MulDiv(b, h, c)

\* -b / c
d_linear_fn(h, a, b, c) == -MulDiv(b, ColumnPerLengthToDensity, c)

\* functools.partial(f, a=a, b=b, c=c)
partial(f, a, b, c) == [f |-> f, a |-> a, b |-> b, c |-> c]

\* calling a partial object with h
Apply(fn, h) ==
    CASE fn.f = "_exponential"   -> exponential_fn(h, fn.a, fn.b, fn.c)
      [] fn.f = "_d_exponential" -> d_exponential_fn(h, fn.a, fn.b, fn.c)
      [] fn.f = "_linear"        -> linear_fn(h, fn.a, fn.b, fn.c)
      [] fn.f = "_d_linear"      -> d_linear_fn(h, fn.a, fn.b, fn.c)

\* [_exponential] * 4 + [_linear]  and  [_d_exponential] * 4 + [_d_linear]
LayerFunctions == <<"_exponential", "_exponential", "_exponential", "_exponential", "_linear">>
LayerDerivatives ==
    <<"_d_exponential", "_d_exponential", "_d_exponential", "_d_exponential", "_d_linear">>

\* the row whose parameters the function of layer i is bound to
BoundRowLast(i) == 5
BoundRow(i) == i

BindAll_reciprocal(names, table) ==
    LET param_a == Col(table.rows, "a")
        param_b == Col(table.rows, "b")
        param_c == [i \in 1..Len(table.rows) |->
                       to_length((10 ^ 9) \div table.rows[i]["inv_c"], table.length_unit)]
    IN  [i \in 1..5 |->
            partial(names[i], param_a[BoundRow(i)], param_b[BoundRow(i)],
                    param_c[BoundRow(i)])]
\* the functions of the five layers, bound to the columns a, b and c
BindAll(names, table) ==
    LET param_a == Col(table.rows, "a")
        param_b == Col(table.rows, "b")
        param_c == [i \in 1..Len(table.rows) |->
                       to_length(table.rows[i]["c"], table.length_unit)]
    IN  [i \in 1..5 |->
            partial(names[i], param_a[BoundRow(i)], param_b[BoundRow(i)],
                    param_c[BoundRow(i)])]

\* FiveLayerAtmosphereDensityProfile.__init__: the instance, or the exception
FiveLayer_init(table) ==
    IF Len(table.rows) < 5
    THEN [Err("IndexError", "index out of range") EXCEPT !.value = NoProfile]
    ELSE Ok([NoProfile EXCEPT !.kind = "FiveLayerAtmosphereDensityProfile",
                              !.table = table,
                              !.funcs = BindAll(LayerFunctions, table),
                              !.d_funcs = BindAll(LayerDerivatives, table)])

\* array.shape != (5, 5)
ShapeRejectedTooSmall(shape) == Len(shape) /= 2 \/ shape[1] < 5 \/ shape[2] < 5
ShapeRejected(shape) == shape /= <<5, 5>>

ArrayColumns == <<"height", "a", "b", "c", "1/c">>

\* Table(array, names=[...], units=[cm, g/cm2, g/cm2, cm, cm-1])
TableOfArray(array) ==
    [length_unit |-> "cm", colnames |-> ArrayColumns,
     rows |-> [i \in 1..Len(array.data) |->
                  [height |-> array.data[i][1], a |-> array.data[i][2],
                   b |-> array.data[i][3], c |-> array.data[i][4],
                   inv_c |-> array.data[i][5]]]]

\* FiveLayerAtmosphereDensityProfile.from_array: the instance, or the
\* exception, and the steps completed
FiveLayer_from_array(array) ==
    IF ShapeRejected(array.shape)
    THEN [status |-> "ValueError", msg |-> "expected ndarray with shape (5,5)",
          value |-> NoProfile, steps |-> <<"shape">>]
    ELSE LET made == FiveLayer_init(TableOfArray(array))
         IN  [status |-> made.status, msg |-> made.msg, value |-> made.value,
              steps |-> IF made.status = "ok" THEN <<"shape", "table", "__init__">>
                        ELSE <<"shape", "table">>]

IsNonDecreasing(bins) == \A i \in 1..(Len(bins) - 1) : bins[i] <= bins[i + 1]
IsNonIncreasing(bins) == \A i \in 1..(Len(bins) - 1) : bins[i] >= bins[i + 1]

\* np.digitize(x, bins), right=False
digitize_right(x, bins) ==
    IF IsNonDecreasing(bins)
    THEN Ok(Cardinality({i \in 1..Len(bins) : bins[i] < x}))
    ELSE IF IsNonIncreasing(bins)
    THEN Ok(Cardinality({i \in 1..Len(bins) : bins[i] >= x}))
    ELSE Err("ValueError", "bins must be monotonically increasing or decreasing")
digitize(x, bins) ==
    IF IsNonDecreasing(bins)
    THEN Ok(Cardinality({i \in 1..Len(bins) : bins[i] <= x}))
    ELSE IF IsNonIncreasing(bins)
    THEN Ok(Cardinality({i \in 1..Len(bins) : bins[i] > x}))
    ELSE Err("ValueError", "bins must be monotonically increasing or decreasing")

\* the boundary heights in the unit of the query
Boundaries(self) ==
    [i \in 1..Len(self.table.rows) |->
        to_length(self.table.rows[i]["height"], self.table.length_unit)]

which_func_of_right(self, h) ==
    LET d == digitize_right(h, Boundaries(self))
    IN  [d EXCEPT !.value = d.value - 1]
\* which_func = np.digitize(h, self.table["height"]) - 1, counted from 0
which_func_of(self, h) ==
    LET d == digitize(h, Boundaries(self))
    IN  [d EXCEPT !.value = d.value - 1]

\* what np.piecewise yields for a scalar no condition selects: numpy leaves
\* the zero it started from; the units-aware piecewise has no piece to take
\* the unit of the result from and raises
UnselectedOutcomes == {Ok(0), Err("IndexError", "tuple index out of range")}

piecewise_clamped(h, which, funclist, unselected) ==
    IF which \in 0..4 THEN Ok(Apply(funclist[which + 1], h))
    ELSE IF which < 0 THEN Ok(Apply(funclist[1], h))
    ELSE unselected
piecewise_four(h, which, funclist, unselected) ==
    IF which \in 0..3 THEN Ok(Apply(funclist[which + 1], h)) ELSE unselected
\* np.piecewise(h, [which_func == i for i in range(5)], funclist)
piecewise(h, which, funclist, unselected) ==
    IF which \in 0..4 THEN Ok(Apply(funclist[which + 1], h)) ELSE unselected

FiveLayer_call_right(self, h, unselected) ==
    LET w == which_func_of_right(self, h)
    IN  IF w.status /= "ok" THEN w
        ELSE LET y == piecewise(h, w.value, self.d_funcs, unselected)
             IN  IF y.status /= "ok" THEN y ELSE Ok((-1) * y.value)
\* FiveLayerAtmosphereDensityProfile.__call__
FiveLayer_call(self, h, unselected) ==
    LET w == which_func_of(self, h)
    IN  IF w.status /= "ok" THEN w
        ELSE LET y == piecewise(h, w.value, self.d_funcs, unselected)
             IN  IF y.status /= "ok" THEN y ELSE Ok((-1) * y.value)

\* FiveLayerAtmosphereDensityProfile.integral
FiveLayer_integral(self, h, unselected) ==
    LET w == which_func_of(self, h)
    IN  IF w.status /= "ok" THEN w
        ELSE piecewise(h, w.value, self.funcs, unselected)

(***************************************************************************)
(* Logarithms and the interpolator (numpy, scipy.interpolate.interp1d).    *)
(***************************************************************************)
\* 10 ** (L / Scale) for a fixed-point L, rounded down
Pow10Fix(L) ==
    LET k == L \div Scale
        m == np_exp(MulDiv(L % Scale, Ln10, Scale))
    IN  IF k >= 0 THEN MulDiv(10 ^ k, m, Scale)
        ELSE IF k < -5 THEN 0
        ELSE m \div (Scale * (10 ^ (-k)))

\* the largest L in lo..hi with Pow10Fix(L) <= v   (Pow10Fix(lo) <= v)
RECURSIVE Log10Search(_, _, _)
Log10Search(v, lo, hi) ==
    IF lo >= hi THEN lo
    ELSE LET mid == (lo + hi + 1) \div 2
         IN  IF Pow10Fix(mid) <= v THEN Log10Search(v, mid, hi)
             ELSE Log10Search(v, lo, mid - 1)

\* the largest decade the model takes a logarithm in
MaxDecades == 8

\* np.log10(v) of an integer v >= 1, in fixed point
Log10Fix(v) == Log10Search(v, 0, MaxDecades * Scale)

\* a stable ascending sort of the indices of x   (np.argsort, mergesort)
RECURSIVE ArgSortInsert(_, _, _)
ArgSortInsert(x, sorted, i) ==
    IF sorted = <<>> THEN <<i>>
    ELSE IF x[Head(sorted)] <= x[i]
         THEN <<Head(sorted)>> \o ArgSortInsert(x, Tail(sorted), i)
         ELSE <<i>> \o sorted

RECURSIVE ArgSortUpTo(_, _)
ArgSortUpTo(x, n) ==
    IF n = 0 THEN <<>> ELSE ArgSortInsert(x, ArgSortUpTo(x, n - 1), n)

argsort(x) == ArgSortUpTo(x, Len(x))

MinLinearPoints == 1 + 1
\* the fewest points a cubic interpolator takes
MinCubicPoints == 4

\* interp1d(x, y, kind="cubic"): the interpolator, or the exception
interp1d(x, y) ==
    IF Len(x) < MinCubicPoints
    THEN [Err("ValueError", "x and y arrays must have at least 4 entries")
             EXCEPT !.value = NoInterp]
    ELSE LET ind == argsort(x)
             xs  == [i \in 1..Len(x) |-> x[ind[i]]]
             ys  == [i \in 1..Len(x) |-> y[ind[i]]]
         IN  IF \E i \in 1..(Len(xs) - 1) : xs[i] = xs[i + 1]
             THEN [Err("ValueError", "Expect x to not have duplicates")
                      EXCEPT !.value = NoInterp]
             ELSE Ok([x |-> xs, y |-> ys])

\* Neville's scheme: the value at x of the polynomial through the knots
\* i..j of the interpolator
RECURSIVE Neville(_, _, _, _)
Neville(f, i, j, x) ==
    IF i = j THEN f.y[i]
    ELSE ((x - f.x[j]) * Neville(f, i, j - 1, x)
          - (x - f.x[i]) * Neville(f, i + 1, j, x)) \div (f.x[i] - f.x[j])

interp_call_clamped(f, x) ==
    IF x < f.x[1] THEN Ok(f.y[1])
    ELSE IF x > f.x[Len(f.x)] THEN Ok(f.y[Len(f.x)])
    ELSE Ok(Neville(f, 1, Len(f.x), x))
\* calling the interpolator.  bounds_error is left at its default: a point
\* outside the knots raises.  The inputs of the model hold four valid
\* heights, and the not-a-knot cubic spline through four knots is the one
\* cubic through them.
interp_call(f, x) ==
    IF x < f.x[1]
    THEN Err("ValueError", "A value in x_new is below the interpolation range.")
    ELSE IF x > f.x[Len(f.x)]
    THEN Err("ValueError", "A value in x_new is above the interpolation range.")
    ELSE Ok(Neville(f, 1, Len(f.x), x))

(***************************************************************************)
(* TableAtmosphereDensityProfile                                           *)
(***************************************************************************)
RequiredColumns == <<"height", "density", "column_density">>

InColnames(table, col) == \E i \in 1..Len(table.colnames) : table.colnames[i] = col

\* the first required column the table lacks, "" when it has them all
RECURSIVE FirstMissing(_, _)
FirstMissing(table, cols) ==
    IF cols = <<>> THEN ""
    ELSE IF ~InColnames(table, Head(cols)) THEN Head(cols)
    ELSE FirstMissing(table, Tail(cols))

\* (height >= 0) & (density > 0) & (column_density > 0)
RowMaskHeightOnly(row) == row.height >= 0
RowMask(row) == row.height >= 0 /\ row.density > 0 /\ row.column_density > 0

\* table[mask]
RECURSIVE FilterRows(_)
FilterRows(rows) ==
    IF rows = <<>> THEN <<>>
    ELSE IF RowMask(Head(rows)) THEN <<Head(rows)>> \o FilterRows(Tail(rows))
    ELSE FilterRows(Tail(rows))

\* decades between the units of the model and g/cm^3, g/cm^2
DensityDecades == 9
ColumnDecades == 3

\* np.log10 of a column converted to g cm-3 / g cm-2
LogColumn(rows, name, decades) ==
    [i \in 1..Len(rows) |-> Log10Fix(rows[i][name]) - decades * Scale]

HeightColumn_raw(table) == [i \in 1..Len(table.rows) |-> table.rows[i].height]
\* self.table["height"].to("km").value, in metres
HeightColumn(table) ==
    [i \in 1..Len(table.rows) |-> to_length(table.rows[i].height, table.length_unit)]

\* the raised exception, with the steps completed before it
Failed(status, msg, steps) ==
    [status |-> status, msg |-> msg, value |-> NoProfile, steps |-> steps]

\* TableAtmosphereDensityProfile.__init__ from the row filter on
Table_build(table) ==
    LET kept == [table EXCEPT !.rows = FilterRows(table.rows)]
        di == interp1d(HeightColumn(kept), LogColumn(kept.rows, "density", DensityDecades))
        ci == interp1d(HeightColumn(kept),
                       LogColumn(kept.rows, "column_density", ColumnDecades))
    IN  IF di.status /= "ok"
        THEN Failed(di.status, di.msg, <<"columns", "filter">>)
        ELSE IF ci.status /= "ok"
        THEN Failed(ci.status, ci.msg, <<"columns", "filter", "_density_interp">>)
        ELSE [status |-> "ok", msg |-> "",
              value |-> [NoProfile EXCEPT !.kind = "TableAtmosphereDensityProfile",
                                          !.table = kept,
                                          !.density_interp = di.value,
                                          !.col_density_interp = ci.value],
              steps |-> <<"columns", "filter", "_density_interp", "_col_density_interp">>]

Table_init_unchecked(table) ==
    IF FirstMissing(table, RequiredColumns) /= ""
    THEN Failed("KeyError", FirstMissing(table, RequiredColumns), <<>>)
    ELSE Table_build(table)
\* TableAtmosphereDensityProfile.__init__: the instance or the exception,
\* and the steps completed
Table_init(table) ==
    IF FirstMissing(table, RequiredColumns) /= ""
    THEN Failed("ValueError",
                "Missing expected column: " \o FirstMissing(table, RequiredColumns)
                   \o " in table", <<>>)
    ELSE Table_build(table)

Table_call_log10(self, h) ==
    LET y == interp_call(self.density_interp, h)
    IN  IF y.status /= "ok" THEN y
        ELSE Ok(y.value + DensityDecades * Scale)
\* 10 ** self._density_interp(h.to_value(u.km))
Table_call(self, h) ==
    LET y == interp_call(self.density_interp, h)
    IN  IF y.status /= "ok" THEN y
        ELSE Ok(Pow10Fix(y.value + DensityDecades * Scale))

\* 10 ** self._col_density_interp(h.to_value(u.km))
Table_integral(self, h) ==
    LET y == interp_call(self.col_density_interp, h)
    IN  IF y.status /= "ok" THEN y
        ELSE Ok(Pow10Fix(y.value + ColumnDecades * Scale))

(***************************************************************************)
(* AtmosphereDensityProfile: the calls on an instance.                     *)
(***************************************************************************)
\* self(h)
density_of(self, h, unselected) ==
    CASE self.kind = "ExponentialAtmosphereDensityProfile" -> Exponential_call(self, h)
      [] self.kind = "TableAtmosphereDensityProfile" -> Table_call(self, h)
      [] self.kind = "FiveLayerAtmosphereDensityProfile" ->
             FiveLayer_call(self, h, unselected)

\* self.integral(h)
integral_of(self, h, unselected) ==
    CASE self.kind = "ExponentialAtmosphereDensityProfile" -> Exponential_integral(self, h)
      [] self.kind = "TableAtmosphereDensityProfile" -> Table_integral(self, h)
      [] self.kind = "FiveLayerAtmosphereDensityProfile" ->
             FiveLayer_integral(self, h, unselected)

\* a Quantity: a number with its unit
Quantity(value, unit) == [value |-> value, unit |-> unit]

\* the units equivalent to u.m among those the model hands in
LengthUnits == {"m", "km", "cm"}

\* @u.quantity_input(h=u.m): whether the argument h passes the validation
quantity_input_unchecked(q) == q.unit = q.unit
quantity_input(q) == q.unit \in LengthUnits

\* the exception the decorator raises in place of calling `fname`
UnitsError(fname) ==
    Err("UnitsError",
        "Argument 'h' to function '" \o fname \o "' must be in units convertible to 'm'.")

\* the height of a Quantity in the unit of the model
Metres(q) == to_length(q.value, q.unit)

\* self(h) through its decorator
decorated_call(self, q, unselected) ==
    IF ~quantity_input(q) THEN UnitsError("__call__")
    ELSE density_of(self, Metres(q), unselected)

\* self.integral(h) through its decorator
decorated_integral(self, q, unselected) ==
    IF ~quantity_input(q) THEN UnitsError("integral")
    ELSE integral_of(self, Metres(q), unselected)

\* the statements a decorated call got through
StepsOf(q) == IF quantity_input(q) THEN <<"quantity_input", "body">> ELSE <<"quantity_input">>

Default_zenith_angle_sixty == 6 * 10
\* the default of the parameter zenith_angle, in degrees
Default_zenith_angle == 0

\* distance * np.cos(zenith_angle)
Projected(distance, zenith_angle) == MulDiv(distance, np_cos(zenith_angle), Scale)

line_of_sight_integral_checked(self, distance, zenith_angle, unselected) ==
    LET x == integral_of(self, Projected(distance, zenith_angle), unselected)
    IN  IF np_cos(zenith_angle) = 0
        THEN Err("ValueError", "zenith angle must be below 90 deg")
        ELSE IF x.status /= "ok" THEN x
        ELSE Ok(true_divide(x.value, np_cos(zenith_angle)))
\* AtmosphereDensityProfile.line_of_sight_integral:
\* self.integral(distance * cos(zenith_angle)) / cos(zenith_angle)
line_of_sight_integral(self, distance, zenith_angle, unselected) ==
    LET x == integral_of(self, Projected(distance, zenith_angle), unselected)
    IN  IF x.status /= "ok" THEN x
        ELSE Ok(true_divide(x.value, np_cos(zenith_angle)))

\* a line_of_sight_integral a subclass would define in place of the base's
overriding_line_of_sight_integral(self, distance, zenith_angle, unselected) ==
    integral_of(self, distance, unselected)

\* self.line_of_sight_integral(...): the definition method resolution finds
call_line_of_sight_integral(self, distance, zenith_angle, unselected) ==
    IF Resolve(self.kind, "line_of_sight_integral") = BaseClass
    THEN line_of_sight_integral(self, distance, zenith_angle, unselected)
    ELSE overriding_line_of_sight_integral(self, distance, zenith_angle, unselected)

(***************************************************************************)
(* Inputs of the constructors.                                             *)
(***************************************************************************)
TRow(h, d, x) == [height |-> h, density |-> d, column_density |-> x]

\* rows a tabulated atmosphere may hold (m, ng/cm^3, mg/cm^2): rows of
\* several atmospheres on the heights 0, 5, 10 and 20 km (one of them dense
\* up to 5 km), and rows the filter drops
RowPool ==
    << TRow(0 - 1000, 1350000, 1160000),
       TRow(0, 1225000, 1033000),
       TRow(0, 1200000, 1030000),
       TRow(5000, 736000, 551000),
       TRow(5000, 1000000, 900000),
       TRow(10000, 413500, 270000),
       TRow(10000, 420000, 284000),
       TRow(15000, 0, 123000),
       TRow(20000, 88900, 56400),
       TRow(30000, 18400, 0) >>

\* the subsequence of seq at the positions in `keep`
RECURSIVE SubSeqAt(_, _, _)
SubSeqAt(seq, keep, i) ==
    IF i > Len(seq) THEN <<>>
    ELSE IF i \in keep THEN <<seq[i]>> \o SubSeqAt(seq, keep, i + 1)
    ELSE SubSeqAt(seq, keep, i + 1)

Reverse(seq) == [i \in 1..Len(seq) |-> seq[Len(seq) + 1 - i]]

RowChoices ==
    LET up == {SubSeqAt(RowPool, keep, 1) : keep \in SUBSET (1..Len(RowPool))}
    IN  up \cup {Reverse(r) : r \in up}

ColnameChoices ==
    { <<"height", "density", "column_density">>,
      <<"column_density", "height", "density", "temperature">>,
      <<"height", "density">>,
      <<"height", "column_density">>,
      <<"density", "column_density">>,
      <<"height">>,
      <<"density">>,
      <<>> }

\* the rows with their heights told in km
InKm(rows) == [i \in 1..Len(rows) |-> [rows[i] EXCEPT !.height = @ \div 1000]]

\* the rows of the tables whose height column is in km
KmRowChoices ==
    {SubSeqAt(RowPool, keep, 1) :
        keep \in {{2, 4, 6, 9}, {3, 5, 7, 9}, {1, 2, 4, 6, 8, 9, 10}, {2, 4, 9}}}

TableInputs ==
    {[length_unit |-> "m", colnames |-> c, rows |-> r] :
        c \in ColnameChoices, r \in RowChoices}
      \cup {[length_unit |-> "km", colnames |-> RequiredColumns, rows |-> InKm(r)] :
               r \in KmRowChoices}

LRow(h, a, b, c, ic) == [height |-> h, a |-> a, b |-> b, c |-> c, inv_c |-> ic]

\* a CORSIKA five-layer parametrisation (m, mg/cm^2, mg/cm^2, m, 1/m in
\* units of 10^-9), and a second one
LayersA ==
    << LRow(0, 0 - 186556, 1222656, 9942, 100584),
       LRow(4000, 0 - 94919, 1144907, 8782, 113869),
       LRow(10000, 613, 1305595, 6361, 157208),
       LRow(40000, 0, 540178, 7722, 129500),
       LRow(100000, 11, 1000, 10000000, 100) >>

LayersB ==
    << LRow(0, 0 - 129870, 1170078, 9720, 102881),
       LRow(7000, 0 - 13913, 1310696, 6823, 146563),
       LRow(11400, 1138, 1490697, 6158, 162390),
       LRow(37000, 0, 503614, 7951, 125770),
       LRow(100000, 11, 1000, 10000000, 100) >>

\* the first parametrisation with the offset of its second layer left out:
\* layers that do not meet at 4 km
LayersC ==
    << LayersA[1], LRow(4000, 0, 1144907, 8782, 113869),
       LayersA[3], LayersA[4], LayersA[5] >>

ExtraLayer == LRow(110000, 5, 500, 10000000, 100)

LayerTable(rows) ==
    [length_unit |-> "m", colnames |-> <<"height", "a", "b", "c">>, rows |-> rows]

\* tables handed to FiveLayerAtmosphereDensityProfile(table)
LayerTableInputs ==
    { LayerTable(LayersA), LayerTable(LayersB), LayerTable(LayersC),
      LayerTable(Reverse(LayersA)),
      LayerTable(Slice(LayersA, 1, 4)), LayerTable(LayersA \o <<ExtraLayer>>),
      LayerTable(<<LayersA[1], LayersA[3], LayersA[2], LayersA[4], LayersA[5]>>) }

\* a row of the eventio array: height and c in cm; a sixth entry for the
\* arrays that are too wide
ArrayRow(r) == <<r.height * 100, r.a, r.b, r.c * 100, r.inv_c, 0>>

Array2D(rows, ncols) ==
    [shape |-> <<Len(rows), ncols>>,
     data |-> [i \in 1..Len(rows) |-> Slice(ArrayRow(rows[i]), 1, ncols)]]

\* the array with every entry of its fifth column set to v
WithFifthColumn(array, v) ==
    [array EXCEPT !.data = [i \in 1..Len(array.data) |-> [array.data[i] EXCEPT ![5] = v]]]

Array1D(rows) == [shape |-> <<Len(rows)>>, data |-> Slice(ArrayRow(rows[1]), 1, 5)]

\* arrays handed to FiveLayerAtmosphereDensityProfile.from_array
ArrayInputs ==
    { Array2D(LayersA, 5), Array2D(LayersB, 5), Array2D(Slice(LayersA, 1, 4), 5),
      WithFifthColumn(Array2D(LayersA, 5), 7), WithFifthColumn(Array2D(LayersB, 5), 3),
      Array2D(LayersA, 4), Array2D(LayersA \o <<ExtraLayer>>, 5),
      Array2D(LayersB, 6), Array1D(LayersA) }

\* units of another dimension, and the numbers given with them
OtherUnits == {"kg", "deg", "s"}
OtherValues == {0, 5}

\* heights handed to a query: every height of the grid in m and km, some in cm, and
\* quantities that are no length
HeightQuantities ==
    {Quantity(h, "m") : h \in Heights}
       \cup {Quantity(h \div 1000, "km") : h \in Heights}
       \cup {Quantity(h * 100, "cm") : h \in Heights \cap {0, 4000, 100000}}
       \cup {Quantity(v, unit) : v \in OtherValues, unit \in OtherUnits}

(***************************************************************************)
(* The state machine.                                                      *)
(***************************************************************************)
NoArg == [none |-> TRUE]

\* the outcome of a call: what was called, with what, and what came of it
Outcome(op, impl, arg, h, zenith, given, ev, steps) ==
    [op |-> op, impl |-> impl, arg |-> arg, h |-> h, zenith |-> zenith,
     zenith_given |-> given, status |-> ev.status, msg |-> ev.msg,
     value |-> IF ev.status = "ok" THEN ev.value ELSE 0, steps |-> steps]

NoCall == Outcome("none", "none", NoArg, 0, 0, FALSE, Ok(0), <<>>)

\* the frame of a thread that runs no call
IdleFrame ==
    [pc |-> "idle", op |-> "none", h |-> 0, zenith |-> 0,
     which_func |-> Ok(0), ret |-> Ok(0)]

ThreadIds == {"t1", "t2"}

NoThreads == [t \in ThreadIds |-> IdleFrame]

\* no EventsLoader and no PixelNoisePlot at hand
NoLoader == [pc |-> "none"]
NoPlot == [pc |-> "none"]

Init ==
    /\ profile = NoProfile
    /\ result = NoCall
    /\ threads = NoThreads
    /\ loader = NoLoader
    /\ plot = NoPlot

\* ExponentialAtmosphereDensityProfile(h0=..., rho0=...), each parameter
\* given or left to its default
ConstructExponential ==
    /\ profile = NoProfile /\ result = NoCall
    /\ \E h0 \in ScaleHeights, rho0 \in ScaleDensities, give_h0, give_rho0 \in BOOLEAN :
         LET p == ExponentialProfile(IF give_h0 THEN h0 ELSE Default_h0,
                                     IF give_rho0 THEN rho0 ELSE Default_rho0)
         IN  /\ profile' = p
             /\ result' = Outcome("__init__", p.kind,
                                  [h0_given |-> give_h0, rho0_given |-> give_rho0,
                                   h0 |-> h0, rho0 |-> rho0],
                                  0, 0, FALSE, Ok(0), <<"__init__">>)
             /\ UNCHANGED <<threads, loader, plot>>

\* TableAtmosphereDensityProfile(table)
ConstructTable ==
    /\ profile = NoProfile /\ result = NoCall
    /\ \E table \in TableInputs :
         LET made == Table_init(table)
         IN  /\ profile' = made.value
             /\ result' = Outcome("__init__", "TableAtmosphereDensityProfile", table,
                                  0, 0, FALSE, [made EXCEPT !.value = 0], made.steps)
             /\ UNCHANGED <<threads, loader, plot>>

\* FiveLayerAtmosphereDensityProfile(table)
ConstructFiveLayer ==
    /\ profile = NoProfile /\ result = NoCall
    /\ \E table \in LayerTableInputs :
         LET made == FiveLayer_init(table)
         IN  /\ profile' = made.value
             /\ result' = Outcome("__init__", "FiveLayerAtmosphereDensityProfile", table,
                                  0, 0, FALSE, [made EXCEPT !.value = 0],
                                  IF made.status = "ok" THEN <<"__init__">> ELSE <<>>)
             /\ UNCHANGED <<threads, loader, plot>>

\* FiveLayerAtmosphereDensityProfile.from_array(array)
FromArray ==
    /\ profile = NoProfile /\ result = NoCall
    /\ \E array \in ArrayInputs :
         LET made == FiveLayer_from_array(array)
         IN  /\ profile' = made.value
             /\ result' = Outcome("from_array", "FiveLayerAtmosphereDensityProfile", array,
                                  0, 0, FALSE, [made EXCEPT !.value = 0], made.steps)
             /\ UNCHANGED <<threads, loader, plot>>

\* profile(h)
Density ==
    /\ profile.kind /= "none"
    /\ \E q \in HeightQuantities, unselected \in UnselectedOutcomes :
         result' = Outcome("__call__", Resolve(profile.kind, "__call__"), q, Metres(q), 0,
                           FALSE, decorated_call(profile, q, unselected), StepsOf(q))
    /\ UNCHANGED <<profile, threads, loader, plot>>

Integral_rebuilding ==
    /\ profile.kind /= "none"
    /\ \E q \in HeightQuantities, unselected \in UnselectedOutcomes :
         result' = Outcome("integral", Resolve(profile.kind, "integral"), q, Metres(q), 0,
                           FALSE, decorated_integral(profile, q, unselected), StepsOf(q))
    /\ profile' = [profile EXCEPT !.table = NoTable]
    /\ UNCHANGED <<threads, loader, plot>>
\* profile.integral(h)
Integral ==
    /\ profile.kind /= "none"
    /\ \E q \in HeightQuantities, unselected \in UnselectedOutcomes :
         result' = Outcome("integral", Resolve(profile.kind, "integral"), q, Metres(q), 0,
                           FALSE, decorated_integral(profile, q, unselected), StepsOf(q))
    /\ UNCHANGED <<profile, threads, loader, plot>>

\* profile.line_of_sight_integral(distance[, zenith_angle]), the distance a
\* length in metres; along the horizon a distance from the observer onwards
LineOfSightIntegral ==
    /\ profile.kind /= "none"
    /\ \E distance \in Heights, given \in BOOLEAN, angle \in ZenithAngles,
          unselected \in UnselectedOutcomes :
         LET zenith_angle == IF given THEN angle ELSE Default_zenith_angle
         IN  /\ np_cos(zenith_angle) = 0 => distance >= 0
             /\ result' = Outcome("line_of_sight_integral",
                               Resolve(profile.kind, "line_of_sight_integral"),
                               Quantity(distance, "m"),
                               distance, zenith_angle, given,
                               call_line_of_sight_integral(profile, distance,
                                                           zenith_angle, unselected),
                               <<>>)
    /\ UNCHANGED <<profile, threads, loader, plot>>

\* profile.h0 = value  or  profile.rho0 = value  on the dataclass instance
AssignAttribute ==
    /\ profile.kind = "ExponentialAtmosphereDensityProfile"
    /\ \E name \in {"h0", "rho0"} :
         \E value \in (IF name = "h0" THEN ScaleHeights ELSE ScaleDensities) :
            /\ profile' = dataclass_setattr(profile, name, value)
            /\ result' = Outcome("__setattr__", profile.kind,
                                 [name |-> name, value |-> value, before |-> profile[name]],
                                 0, 0, FALSE, Ok(0), <<>>)
    /\ UNCHANGED <<threads, loader, plot>>

Next ==
    \/ ConstructExponential
    \/ ConstructTable
    \/ ConstructFiveLayer
    \/ FromArray
    \/ Density
    \/ Integral
    \/ LineOfSightIntegral
    \/ AssignAttribute

Spec == Init /\ [][Next]_vars

(***************************************************************************)
(* Threads querying one shared instance without a lock.  A query runs in   *)
(* the frame of its thread, statement by statement: the call binds the     *)
(* arguments, the first statement of a five-layer query stores the local   *)
(* which_func, the rest evaluates and returns.                             *)
(***************************************************************************)
\* a tabulated atmosphere of four valid rows
SharedTable ==
    [length_unit |-> "m", colnames |-> RequiredColumns,
     rows |-> <<RowPool[2], RowPool[4], RowPool[6], RowPool[9]>>]

\* the instances the threads may share
SharedProfiles ==
    { ExponentialProfile(Default_h0, Default_rho0),
      Table_init(SharedTable).value,
      FiveLayer_init(LayerTable(LayersA)).value }

ThreadOps == {"__call__", "integral", "line_of_sight_integral"}
ThreadHeights == {0 - 2000, 4000, 20000}
ThreadZeniths == {0, 60}

\* the frame that holds the local variable which_func of the call thread t runs
which_func_frame_shared(t) == "t1"
which_func_frame(t) == t

\* the height the body of the query of a frame evaluates at
FrameHeight(f) ==
    IF f.op = "line_of_sight_integral" THEN Projected(f.h, f.zenith) ELSE f.h

InitThreads ==
    /\ profile \in SharedProfiles
    /\ result = NoCall
    /\ threads = NoThreads
    /\ loader = NoLoader
    /\ plot = NoPlot

\* thread t calls a query of the shared instance
ThreadCall(t) ==
    /\ threads[t].pc = "idle"
    /\ \E op \in ThreadOps, h \in ThreadHeights, zenith \in ThreadZeniths :
         threads' = [threads EXCEPT
                        ![t] = [threads[t] EXCEPT
                                   !.pc = "select", !.op = op, !.h = h,
                                   !.zenith = IF op = "line_of_sight_integral"
                                              THEN zenith ELSE 0]]
    /\ UNCHANGED <<profile, result, loader, plot>>

\* which_func = np.digitize(h, self.table["height"]) - 1 (a five-layer
\* instance; the other variants have no such statement)
ThreadSelect(t) ==
    /\ threads[t].pc = "select"
    /\ threads' =
          IF profile.kind = "FiveLayerAtmosphereDensityProfile"
          THEN [threads EXCEPT
                   ![which_func_frame(t)].which_func =
                        which_func_of(profile, FrameHeight(threads[t])),
                   ![t].pc = "evaluate"]
          ELSE [threads EXCEPT ![t].pc = "evaluate"]
    /\ UNCHANGED <<profile, result, loader, plot>>

\* the rest of the body of a query, given the local which_func
BodyAfterSelect(self, f, which, unselected) ==
    LET h == FrameHeight(f)
        own == IF self.kind /= "FiveLayerAtmosphereDensityProfile"
               THEN IF f.op = "__call__" THEN density_of(self, h, unselected)
                    ELSE integral_of(self, h, unselected)
               ELSE IF which.status /= "ok" THEN which
               ELSE IF f.op = "__call__"
               THEN LET y == piecewise(h, which.value, self.d_funcs, unselected)
                    IN  IF y.status /= "ok" THEN y ELSE Ok((-1) * y.value)
               ELSE piecewise(h, which.value, self.funcs, unselected)
    IN  IF f.op = "line_of_sight_integral" /\ own.status = "ok"
        THEN Ok(MulDiv(own.value, Scale, np_cos(f.zenith)))
        ELSE own

\* thread t evaluates and holds the value to return
ThreadEvaluate(t) ==
    /\ threads[t].pc = "evaluate"
    /\ \E unselected \in UnselectedOutcomes :
         threads' = [threads EXCEPT
                        ![t].ret = BodyAfterSelect(profile, threads[t],
                                                   threads[which_func_frame(t)].which_func,
                                                   unselected),
                        ![t].pc = "done"]
    /\ UNCHANGED <<profile, result, loader, plot>>

\* the query of thread t returns; its frame is gone
ThreadReturn(t) ==
    /\ threads[t].pc = "done"
    /\ threads' = [threads EXCEPT ![t] = IdleFrame]
    /\ UNCHANGED <<profile, result, loader, plot>>

NextThreads ==
    \E t \in ThreadIds :
       \/ ThreadCall(t)
       \/ ThreadSelect(t)
       \/ ThreadEvaluate(t)
       \/ ThreadReturn(t)

SpecThreads == InitThreads /\ [][NextThreads]_vars

(***************************************************************************)
(* ctapipe.irf.select: EventPreProcessor.normalise_column_names and        *)
(* EventsLoader.load_preselected_events.  A table is its column names and  *)
(* the event_id of its rows; the table of a file is read chunk by chunk.   *)
(***************************************************************************)
MaxEvents == 3

\* the defaults of the traits of EventPreProcessor
energy_reconstructor == "RandomForestRegressor"
geometry_reconstructor == "HillasReconstructor"
gammaness_classifier == "RandomForestClassifier"

keep_columns == <<"obs_id", "event_id", "true_energy", "true_az", "true_alt">>

\* the columns the check of normalise_column_names goes through
RecoColumns == <<"reco_energy", "reco_az", "reco_alt", "gh_score">>

\* standard_renames[new]: the column of the prod5b format renamed to `new`
standard_renames(new) ==
    CASE new = "reco_energy" -> energy_reconstructor \o "_energy"
      [] new = "reco_az"     -> geometry_reconstructor \o "_az"
      [] new = "reco_alt"    -> geometry_reconstructor \o "_alt"
      [] new = "gh_score"    -> gammaness_classifier \o "_prediction"

Range(seq) == {seq[i] : i \in 1..Len(seq)}

\* the entries of seq that are in the set S, in their order
RECURSIVE Only(_, _)
Only(seq, S) ==
    IF seq = <<>> THEN <<>>
    ELSE IF Head(seq) \in S THEN <<Head(seq)>> \o Only(Tail(seq), S)
    ELSE Only(Tail(seq), S)

\* events[names]: the columns `names` of a table of the columns `colnames`,
\* or the KeyError of the first of them the table lacks
select_columns(colnames, names) ==
    LET absent == Only(names, Range(names) \ colnames)
    IN  IF absent /= <<>> THEN Err("KeyError", Head(absent)) ELSE Ok(names)

\* Table.rename_columns(names, new_names), one rename_column after the other
RECURSIVE rename_all(_, _, _)
rename_all(cols, names, new_names) ==
    IF names = <<>> THEN Ok(cols)
    ELSE IF Head(names) = Head(new_names)
    THEN rename_all(cols, Tail(names), Tail(new_names))
    ELSE IF Head(new_names) \in Range(cols)
    THEN Err("KeyError", "Column " \o Head(new_names) \o " already exists")
    ELSE rename_all([i \in 1..Len(cols) |->
                        IF cols[i] = Head(names) THEN Head(new_names) ELSE cols[i]],
                    Tail(names), Tail(new_names))

\* EventPreProcessor.normalise_column_names for the pairs (old, new) of
\* rename_columns and the column names of the events: the columns of the
\* returned table, or the exception
normalise_column_names(rename_columns, colnames) ==
    LET user_from == [i \in 1..Len(rename_columns) |-> rename_columns[i][1]]
        user_to   == [i \in 1..Len(rename_columns) |-> rename_columns[i][2]]
        \* the standard renames left after the pops, whose column is in the data
        standard  == Only(RecoColumns,
                          {new \in Range(RecoColumns) :
                              new \notin Range(user_to) /\ standard_renames(new) \in colnames})
        rename_from == user_from \o [i \in 1..Len(standard) |-> standard_renames(standard[i])]
        rename_to   == user_to \o standard
        undefined == Only(RecoColumns, Range(RecoColumns) \ Range(rename_to))
        kept == select_columns(colnames, keep_columns \o rename_from)
    IN  IF undefined /= <<>>
        THEN Err("ValueError",
                 "No column corresponding to " \o Head(undefined)
                    \o " is defined in EventPreProcessor.rename_columns and "
                    \o standard_renames(Head(undefined)) \o " is not in the given data.")
        ELSE IF kept.status /= "ok" THEN kept
        ELSE rename_all(kept.value, rename_from, rename_to)

\* the columns of EventPreProcessor.make_empty_table
HeaderColumns ==
    <<"obs_id", "event_id", "true_energy", "true_az", "true_alt", "reco_energy",
      "reco_az", "reco_alt", "reco_fov_lat", "reco_fov_lon", "gh_score", "pointing_az",
      "pointing_alt", "theta", "true_source_fov_offset", "reco_source_fov_offset">>

make_empty_table == [colnames |-> HeaderColumns, rows |-> <<>>]

\* the columns make_derived_columns sets, in its order
DerivedColumns ==
    <<"pointing_alt", "pointing_az", "theta", "true_source_fov_offset",
      "reco_source_fov_offset", "reco_fov_lon", "reco_fov_lat">>

\* EventsLoader.make_derived_columns: the table with the derived columns, or
\* the exception for a pointing that varies
make_derived_columns(events, metadata) ==
    IF metadata = "varying_pointing"
    THEN Err("NotImplementedError", "No support for making irfs from varying pointings yet")
    ELSE Ok([events EXCEPT !.colnames = @ \o DerivedColumns])

\* events[self.epp.get_table_mask(events)]: the event_id of the rows the
\* quality criteria let through, in their order
RECURSIVE get_table_mask(_)
get_table_mask(events) ==
    IF events = <<>> THEN <<>>
    ELSE IF Head(events).passes
    THEN <<Head(events).event_id>> \o get_table_mask(Tail(events))
    ELSE get_table_mask(Tail(events))

\* the rows of the tables, one table after the other
RECURSIVE stacked_rows(_)
stacked_rows(bits) ==
    IF bits = <<>> THEN <<>> ELSE Head(bits).rows \o stacked_rows(Tail(bits))

\* vstack(bits, join_type="exact", metadata_conflicts="silent")
vstack(bits) ==
    IF \E i \in 1..Len(bits) : Range(bits[i].colnames) /= Range(bits[1].colnames)
    THEN Err("TableMergeError", "Inconsistent columns in input arrays")
    ELSE Ok([colnames |-> bits[1].colnames, rows |-> stacked_rows(bits)])

\* the number of chunks of chunk_size rows a table of n rows is read in
n_chunks(n, chunk_size) == (n + chunk_size - 1) \div chunk_size

\* the k-th chunk read_subarray_events_chunked yields
chunk(events, chunk_size, k) ==
    LET lo == (k - 1) * chunk_size + 1
        hi == IF k * chunk_size < Len(events) THEN k * chunk_size ELSE Len(events)
    IN  [i \in 1..(hi - lo + 1) |-> events[lo + i - 1]]

count_kept(n_raw_events, events, selected) == n_raw_events + Len(selected)
\* n_raw_events += len(events)
count_read(n_raw_events, events, selected) == n_raw_events + Len(events)

\* columns a file may hold besides those of keep_columns
OptionalColumns ==
    {standard_renames(RecoColumns[i]) : i \in 1..4} \cup {"my_energy", "my_score"}

\* the column names of the events of a file
EventColumnChoices ==
    {Range(keep_columns) \cup S : S \in SUBSET OptionalColumns}
       \cup {(Range(keep_columns) \ {"true_az"}) \cup OptionalColumns}

\* values of the trait rename_columns: pairs (old, new)
RenameChoices ==
    { <<>>,
      << <<"my_energy", "reco_energy">> >>,
      << <<"my_energy", "reco_energy">>, <<"my_score", "gh_score">> >>,
      << <<"my_score", "classifier_score">> >> }

\* the events of a file: event_id, and whether the quality criteria let the
\* event through
EventChoices ==
    UNION {{[i \in 1..n |-> [event_id |-> i, passes |-> f[i]]] : f \in [1..n -> BOOLEAN]} :
              n \in 0..MaxEvents}

\* an EventsLoader constructed on a file, with the configuration of its
\* EventPreProcessor
InitSelect ==
    /\ profile = NoProfile
    /\ result = NoCall
    /\ threads = NoThreads
    /\ plot = NoPlot
    /\ \E colnames \in EventColumnChoices, events \in EventChoices,
          metadata \in {"uniform", "varying_spectrum", "varying_pointing"},
          rename_columns \in RenameChoices :
         loader = [pc |-> "idle",
                   file |-> [colnames |-> colnames, events |-> events, metadata |-> metadata],
                   rename_columns |-> rename_columns,
                   chunk_size |-> 0, k |-> 0, bits |-> <<>>, n_raw_events |-> 0,
                   normalised |-> [called |-> FALSE, status |-> "ok", msg |-> "",
                                   colnames |-> <<>>],
                   raised |-> Ok(0),
                   ret |-> [returned |-> FALSE, table |-> make_empty_table,
                            n_raw_events |-> 0]]

\* load_preselected_events up to its loop: the metadata, the header
LoadPreselectedEvents ==
    /\ loader.pc = "idle"
    /\ \E chunk_size \in {1, 2} :
         IF loader.file.metadata = "varying_spectrum"
         THEN loader' = [loader EXCEPT
                            !.pc = "raised",
                            !.raised = Err("NotImplementedError",
                                           "Unsupported: 'spectral_index' differs across simulation runs")]
         ELSE loader' = [loader EXCEPT !.pc = "loop", !.chunk_size = chunk_size,
                                       !.bits = <<make_empty_table>>,
                                       !.n_raw_events = 0]
    /\ UNCHANGED <<profile, result, threads, plot>>

\* one pass of the loop over the chunks
ReadChunk ==
    /\ loader.pc = "loop"
    /\ loader.k < n_chunks(Len(loader.file.events), loader.chunk_size)
    /\ LET events == chunk(loader.file.events, loader.chunk_size, loader.k + 1)
           selected == get_table_mask(events)
           names == normalise_column_names(loader.rename_columns, loader.file.colnames)
           normalised == [called |-> TRUE, status |-> names.status, msg |-> names.msg,
                          colnames |-> IF names.status = "ok" THEN names.value ELSE <<>>]
           derived == make_derived_columns([colnames |-> names.value, rows |-> selected],
                                           loader.file.metadata)
       IN  IF names.status /= "ok"
           THEN loader' = [loader EXCEPT !.pc = "raised", !.normalised = normalised,
                                         !.raised = names]
           ELSE IF derived.status /= "ok"
           THEN loader' = [loader EXCEPT !.pc = "raised", !.normalised = normalised,
                                         !.raised = derived]
           ELSE loader' = [loader EXCEPT
                              !.normalised = normalised,
                              !.bits = Append(@, derived.value),
                              !.n_raw_events = count_read(@, events, selected),
                              !.k = @ + 1]
    /\ UNCHANGED <<profile, result, threads, plot>>

\* after the loop: the header once more, vstack, return
ReturnTable ==
    /\ loader.pc = "loop"
    /\ loader.k = n_chunks(Len(loader.file.events), loader.chunk_size)
    /\ LET bits == Append(loader.bits, make_empty_table)
           table == vstack(bits)
       IN  IF table.status /= "ok"
           THEN loader' = [loader EXCEPT !.pc = "raised", !.bits = bits, !.raised = table]
           ELSE loader' = [loader EXCEPT
                              !.pc = "returned", !.bits = bits,
                              !.ret = [returned |-> TRUE, table |-> table.value,
                                       n_raw_events |-> loader.n_raw_events]]
    /\ UNCHANGED <<profile, result, threads, plot>>

NextSelect ==
    \/ LoadPreselectedEvents
    \/ ReadChunk
    \/ ReturnTable

SpecSelect == InitSelect /\ [][NextSelect]_vars

(***************************************************************************)
(* ctapipe.benchmarks: decide_on_subplot_layout and                        *)
(* PixelNoisePlot.layout_figures.                                          *)
(***************************************************************************)
MaxTelescopes == 17
MaxCameras == 2

\* plot_utils.decide_on_subplot_layout
decide_on_subplot_layout(num_plots) ==
    IF num_plots <= 4 THEN <<2, 2>>
    ELSE IF num_plots <= 6 THEN <<2, 3>>
    ELSE IF num_plots <= 8 THEN <<2, 4>>
    ELSE IF num_plots = 9 THEN <<3, 3>>
    ELSE IF num_plots <= 12 THEN <<3, 4>>
    ELSE <<4, num_plots \div 4>>

\* the pass of the loop of layout_figures for a camera of n telescopes: the
\* grid of plt.subplots(nx, ny) and the telescopes that are drawn, those
\* zip pairs with an axis of axs.ravel()
layout_camera(n) ==
    LET layout == decide_on_subplot_layout(n)
    IN  [nx |-> layout[1], ny |-> layout[2], axes |-> layout[1] * layout[2],
         drawn |-> IF n < layout[1] * layout[2] THEN n ELSE layout[1] * layout[2]]

\* a PixelNoisePlot after prepare_data: the number of telescopes of each
\* camera of the file
InitPlot ==
    /\ profile = NoProfile
    /\ result = NoCall
    /\ threads = NoThreads
    /\ loader = NoLoader
    /\ \E n \in 1..MaxCameras :
         \E tels \in [1..n -> 1..MaxTelescopes] :
            plot = [pc |-> "prepared", tels |-> tels, figures |-> <<>>]

\* layout_figures up to its loop: self.figures = {}
LayoutFigures ==
    /\ plot.pc = "prepared"
    /\ plot' = [plot EXCEPT !.pc = "layout", !.figures = <<>>]
    /\ UNCHANGED <<profile, result, threads, loader>>

\* one pass of the loop over the cameras
LayoutCamera ==
    /\ plot.pc = "layout"
    /\ Len(plot.figures) < Len(plot.tels)
    /\ plot' = [plot EXCEPT
                   !.figures = Append(@, layout_camera(plot.tels[Len(plot.figures) + 1]))]
    /\ UNCHANGED <<profile, result, threads, loader>>

NextPlot ==
    \/ LayoutFigures
    \/ LayoutCamera

SpecPlot == InitPlot /\ [][NextPlot]_vars

(***************************************************************************)
(* Properties.                                                             *)
(***************************************************************************)
\* the last call ended as the evaluation ev does
Matches(ev) ==
    /\ result.status = ev.status
    /\ result.msg = ev.msg
    /\ ev.status = "ok" => result.value = ev.value

IsExponential == profile.kind = "ExponentialAtmosphereDensityProfile"
IsTable == profile.kind = "TableAtmosphereDensityProfile"
IsFiveLayer == profile.kind = "FiveLayerAtmosphereDensityProfile"

\* the integral of the variant of the instance, named variant by variant
VariantIntegral(h, unselected) ==
    IF IsExponential THEN Exponential_integral(profile, h)
    ELSE IF IsTable THEN Table_integral(profile, h)
    ELSE FiveLayer_integral(profile, h, unselected)

\* x / cos(zenith) of an evaluation x
OverCos(x, zenith) ==
    IF x.status /= "ok" THEN x
    ELSE IF np_cos(zenith) /= 0 THEN Ok(MulDiv(x.value, Scale, np_cos(zenith)))
    ELSE IF x.value = 0 THEN Ok(0)
    ELSE Ok(IF x.value > 0 THEN VeryLarge ELSE 0 - VeryLarge)

\* C1: for every variant, line_of_sight_integral(d, psi) runs the one
\* definition of the base class and ends as integral(d * cos(psi)) / cos(psi)
\* of that variant does; for psi = 60 deg that is 2 * integral(d / 2).
C1_LineOfSightIsIntegralOverCos ==
    result.op = "line_of_sight_integral" =>
        /\ result.impl = BaseClass
        /\ \E u \in UnselectedOutcomes :
              Matches(OverCos(VariantIntegral((result.h * np_cos(result.zenith)) \div Scale, u),
                              result.zenith))
        /\ result.zenith = 60 =>
              \E u \in UnselectedOutcomes :
                 LET half == VariantIntegral(result.h \div 2, u)
                 IN  Matches(IF half.status = "ok" THEN Ok(2 * half.value) ELSE half)

C1_Witness ==
    /\ IsFiveLayer
    /\ result.op = "line_of_sight_integral"
    /\ result.h = 10000 /\ result.zenith = 60 /\ result.zenith_given
    /\ result.status = "ok"
    /\ result.value = 2 * FiveLayer_integral(profile, 5000, Ok(0)).value
    /\ result.value > 0

\* C2: at zenith angle 0, given or left to its default,
\* line_of_sight_integral(d) ends exactly as integral(d) does.
C2_VerticalLineOfSightIsIntegral ==
    result.op = "line_of_sight_integral" =>
        /\ ~result.zenith_given => result.zenith = 0
        /\ result.zenith = 0 =>
              \E u \in UnselectedOutcomes : Matches(VariantIntegral(result.h, u))

C2_Witness ==
    /\ IsTable
    /\ result.op = "line_of_sight_integral"
    /\ ~result.zenith_given
    /\ result.status = "ok"
    /\ result.h = 5000
    /\ result.value = Table_integral(profile, 5000).value
    /\ result.value > 0

\* C3: for an exponential profile density(h) = rho0 * exp(-h/h0) and
\* integral(h) = rho0 * h0 * exp(-h/h0): at h = 0 they are rho0 and
\* rho0 * h0, above 0 they are smaller, and integral(h) = h0 * density(h)
\* up to the rounding of the products.
C3_ExponentialClosedForm ==
    (IsExponential /\ result.op \in {"__call__", "integral"}
        /\ result.arg.unit \in LengthUnits) =>
        LET h == result.h
            e == np_exp(((-h) * Scale) \div profile.h0)
            rho == MulDiv(profile.rho0, e, Scale)
            col == Exponential_integral(profile, h).value
            den == Exponential_call(profile, h).value
        IN  /\ result.status = "ok"
            /\ result.op = "__call__" => result.value = rho
            /\ result.op = "integral" =>
                  Abs(result.value - MulDiv(rho, profile.h0, DensityLengthPerColumn)) <= 2
            /\ Abs(col - MulDiv(den, profile.h0, DensityLengthPerColumn)) <= 2
            /\ h = 0 => /\ den = profile.rho0
                        /\ col = MulDiv(profile.rho0, profile.h0, DensityLengthPerColumn)
            /\ h > 0 => den < profile.rho0
            /\ h = profile.h0 =>
                  Abs(MulDiv(den, 27183, 10000) - profile.rho0) * 1000 <= profile.rho0

C3_Witness ==
    /\ IsExponential
    /\ profile.h0 = 6000 /\ profile.rho0 = 1000000
    /\ result.op = "integral"
    /\ result.h = 10000
    /\ result.value > 0
    /\ result.value < 600000

\* C4: for an exponential profile with positive h0 and rho0, integral does
\* not increase with height over the heights h >= 0.
C4_ExponentialIntegralMonotone ==
    (IsExponential /\ result.op = "integral" /\ result.status = "ok"
        /\ result.h >= 0) =>
        /\ profile.h0 > 0 /\ profile.rho0 > 0
        /\ \A h2 \in Heights :
              LET other == Exponential_integral(profile, h2).value
              IN  /\ (h2 >= 0 /\ h2 < result.h) => other >= result.value
                  /\ h2 > result.h => result.value >= other

C4_Witness ==
    /\ IsExponential
    /\ result.op = "integral"
    /\ result.h = 4000
    /\ result.value > Exponential_integral(profile, 10000).value
    /\ result.value < Exponential_integral(profile, 0).value

\* the boundary heights of a five-layer instance ascend strictly
AscendingBoundaries ==
    LET H == Boundaries(profile)
    IN  \A i \in 1..(Len(H) - 1) : H[i] < H[i + 1]

\* the number of boundary heights at or below h
BoundariesUpTo(h) ==
    LET H == Boundaries(profile)
    IN  Cardinality({i \in 1..Len(H) : H[i] <= h})

\* every layer of a five-layer instance has b > 0 and c > 0
PositiveLayers ==
    \A i \in 1..Len(profile.table.rows) :
        profile.table.rows[i].b > 0 /\ profile.table.rows[i].c > 0

\* v1 at height h1 and v2 at height h2 do not increase with height
NonIncreasing(h1, v1, h2, v2) ==
    /\ h1 < h2 => v1 >= v2
    /\ h2 < h1 => v2 >= v1

\* C5 as stated: for every variant and all heights at which integral
\* returns a value, integral does not increase with height.
C5_Original_IntegralMonotoneEverywhere ==
    (result.op = "integral" /\ result.status = "ok") =>
        \A h2 \in Heights, u \in UnselectedOutcomes :
           LET other == VariantIntegral(h2, u)
           IN  other.status = "ok" =>
                  NonIncreasing(result.h, result.value, h2, other.value)

\* C5 as amended: integral does not increase with height for an exponential
\* profile at all heights, and for a five-layer profile with ascending
\* boundaries and positive b, c over the heights of one layer.
C5_IntegralMonotoneWithinLayer ==
    (result.op = "integral" /\ result.status = "ok") =>
        /\ IsExponential =>
              \A h2 \in Heights :
                 NonIncreasing(result.h, result.value,
                               h2, Exponential_integral(profile, h2).value)
        /\ (IsFiveLayer /\ Len(profile.table.rows) = 5
               /\ AscendingBoundaries /\ PositiveLayers) =>
              \A h2 \in Heights :
                 (BoundariesUpTo(h2) = BoundariesUpTo(result.h) /\ BoundariesUpTo(h2) >= 1) =>
                     NonIncreasing(result.h, result.value,
                                   h2, FiveLayer_integral(profile, h2, Ok(0)).value)

C5_Witness ==
    /\ IsFiveLayer /\ AscendingBoundaries /\ PositiveLayers
    /\ result.op = "integral" /\ result.status = "ok"
    /\ result.h = 100000
    /\ BoundariesUpTo(110000) = BoundariesUpTo(100000)
    /\ 110000 \in Heights
    /\ result.value > FiveLayer_integral(profile, 110000, Ok(0)).value

\* the columns of a table, as a set
ColumnSet(table) == {table.colnames[i] : i \in 1..Len(table.colnames)}

\* C6: TableAtmosphereDensityProfile(table) with a table that lacks a
\* required column raises ValueError naming the first missing one of
\* height, density, column_density, before any row is filtered or any
\* interpolator built, and leaves no instance.
C6_MissingColumnRejected ==
    (result.op = "__init__" /\ result.impl = "TableAtmosphereDensityProfile"
        /\ ~({"height", "density", "column_density"} \subseteq ColumnSet(result.arg))) =>
        LET cols == ColumnSet(result.arg)
            first == IF "height" \notin cols THEN "height"
                     ELSE IF "density" \notin cols THEN "density"
                     ELSE "column_density"
        IN  /\ result.status = "ValueError"
            /\ result.msg = "Missing expected column: " \o first \o " in table"
            /\ result.steps = <<>>
            /\ profile = NoProfile

C6_Witness ==
    /\ result.op = "__init__" /\ result.impl = "TableAtmosphereDensityProfile"
    /\ result.arg.colnames = <<"height", "density">>
    /\ Len(result.arg.rows) >= 4
    /\ result.status = "ValueError"
    /\ result.msg = "Missing expected column: column_density in table"
    /\ profile = NoProfile

\* the positions of the rows of a table that are physically valid
ValidPositions(rows) ==
    {i \in 1..Len(rows) :
        rows[i].height >= 0 /\ rows[i].density > 0 /\ rows[i].column_density > 0}

\* the height of row i of a table, in metres
MetresOfRow(table, i) ==
    IF table.length_unit = "km" THEN table.rows[i].height * 1000
    ELSE table.rows[i].height

\* the knots (x, y) of an interpolator, as a set
Knots(f) == {<<f.x[i], f.y[i]>> : i \in 1..Len(f.x)}

\* C7: a constructed TableAtmosphereDensityProfile stores exactly the rows
\* of its input with height >= 0, density > 0 and column_density > 0, in
\* their order; the other rows are dropped without an error, and both
\* interpolators have the stored rows, and no other, as their knots.
C7_StoredTableIsFilteredInput ==
    (result.op = "__init__" /\ result.impl = "TableAtmosphereDensityProfile"
        /\ result.status = "ok") =>
        LET input == result.arg.rows
            kept == profile.table.rows
        IN  /\ IsTable
            /\ kept = SubSeqAt(input, ValidPositions(input), 1)
            /\ \A i \in 1..Len(kept) : kept[i].height >= 0
            /\ Knots(profile.density_interp) =
                  {<<MetresOfRow(profile.table, i),
                     Log10Fix(kept[i].density) - DensityDecades * Scale>> :
                      i \in 1..Len(kept)}
            /\ Knots(profile.col_density_interp) =
                  {<<MetresOfRow(profile.table, i),
                     Log10Fix(kept[i].column_density) - ColumnDecades * Scale>> :
                      i \in 1..Len(kept)}
            /\ Len(profile.density_interp.x) = Len(kept)
            /\ Len(profile.col_density_interp.x) = Len(kept)

C7_Witness ==
    /\ result.op = "__init__" /\ result.impl = "TableAtmosphereDensityProfile"
    /\ result.status = "ok"
    /\ IsTable
    /\ Len(result.arg.rows) = 7
    /\ Len(profile.table.rows) = 4
    /\ profile.table.rows[4].height = 0
    /\ \E i \in 1..7 : result.arg.rows[i].density = 0
    /\ \E i \in 1..7 : result.arg.rows[i].column_density = 0
    /\ \E i \in 1..7 : result.arg.rows[i].height < 0

\* C8: from_array raises ValueError for an array whose shape is not (5, 5),
\* before a table or a layer function is built and leaving no instance; an
\* array of shape (5, 5) yields a five-layer instance.
C8_FromArrayShape ==
    result.op = "from_array" =>
        /\ result.arg.shape /= <<5, 5>> =>
              /\ result.status = "ValueError"
              /\ result.msg = "expected ndarray with shape (5,5)"
              /\ result.steps = <<"shape">>
              /\ profile = NoProfile
        /\ result.arg.shape = <<5, 5>> =>
              /\ result.status = "ok"
              /\ IsFiveLayer
              /\ Len(profile.table.rows) = 5
              /\ Len(profile.funcs) = 5 /\ Len(profile.d_funcs) = 5

C8_Witness ==
    /\ result.op = "from_array"
    /\ result.arg.shape = <<6, 5>>
    /\ result.status = "ValueError"
    /\ profile = NoProfile

\* C9: in a five-layer instance, layers 1..4 hold f(h) = a + b exp(-h/c)
\* and f'(h) = -(b/c) exp(-h/c), layer 5 holds f(h) = a - b h / c and
\* f'(h) = -b/c, each with the a, b, c of its own table row.
C9_LayerFunctionsBoundToOwnRow ==
    IsFiveLayer =>
        /\ Len(profile.funcs) = 5 /\ Len(profile.d_funcs) = 5
        /\ \A i \in 1..5 :
              LET row == profile.table.rows[i]
                  c == IF profile.table.length_unit = "cm" THEN row.c \div 100 ELSE row.c
                  f == profile.funcs[i]
                  d == profile.d_funcs[i]
                  h == result.h
                  e == np_exp(((-h) * Scale) \div c)
                  slope == MulDiv(row.b, ColumnPerLengthToDensity, c)
              IN  /\ f.a = row.a /\ f.b = row.b /\ f.c = c
                  /\ d.a = row.a /\ d.b = row.b /\ d.c = c
                  /\ i <= 4 => /\ f.f = "_exponential" /\ d.f = "_d_exponential"
                               /\ Apply(f, h) = row.a + MulDiv(row.b, e, Scale)
                               /\ Apply(d, h) = -MulDiv(slope, e, Scale)
                  /\ i = 5 => /\ f.f = "_linear" /\ d.f = "_d_linear"
                              /\ Apply(f, h) = row.a - MulDiv(row.b, h, c)
                              /\ Apply(d, h) = -slope

C9_Witness ==
    /\ IsFiveLayer
    /\ profile.table.length_unit = "cm"
    /\ result.op = "integral" /\ result.h = 20000 /\ result.status = "ok"
    /\ profile.funcs[3].c = 6361 /\ profile.funcs[3].b = 1305595
    /\ profile.funcs[3] /= profile.funcs[1]
    /\ profile.d_funcs[5].f = "_d_linear" /\ profile.d_funcs[5].c = 10000000

\* C10: in a five-layer instance with ascending boundaries H1 < ... < H5,
\* density(h) and integral(h) at a height h >= H1 are the value of the one
\* layer k for which H_k is the largest boundary with H_k <= h.
C10_LayerOfLargestBoundaryBelow ==
    (IsFiveLayer /\ Len(profile.table.rows) = 5 /\ AscendingBoundaries
        /\ result.op \in {"__call__", "integral"}
        /\ result.arg.unit \in LengthUnits
        /\ result.h >= Boundaries(profile)[1]) =>
        LET H == Boundaries(profile)
            k == CHOOSE i \in 1..5 :
                    /\ H[i] <= result.h
                    /\ \A j \in 1..5 : H[j] <= result.h => H[j] <= H[i]
        IN  /\ result.status = "ok"
            /\ result.op = "integral" => result.value = Apply(profile.funcs[k], result.h)
            /\ result.op = "__call__" => result.value = -Apply(profile.d_funcs[k], result.h)

C10_Witness ==
    /\ IsFiveLayer /\ Len(profile.table.rows) = 5 /\ AscendingBoundaries
    /\ result.op = "integral" /\ result.status = "ok"
    /\ result.h = 4000
    /\ Boundaries(profile)[2] = 4000
    /\ result.value = Apply(profile.funcs[2], 4000)
    /\ result.value /= Apply(profile.funcs[1], 4000)

\* a query of density or integral with a height that is a length
IsHeightQuery ==
    /\ result.op \in {"__call__", "integral"}
    /\ result.arg.unit \in LengthUnits

\* the value of layer i (a row of the table) at h, as the query `op` reports it
LayerValue(op, i, h) ==
    IF op = "integral" THEN Apply(profile.funcs[i], h)
    ELSE (-1) * Apply(profile.d_funcs[i], h)

\* the rows i = 2..5 whose boundary height is h
InteriorBoundaryAt(h) ==
    {i \in 2..5 : i <= Len(profile.table.rows) /\ Boundaries(profile)[i] = h}

\* C11 as stated: a query at the height of row i (i = 2..5) of a five-layer
\* instance with ascending boundaries is evaluated with layer i - 1, the
\* layer below that boundary.
C11_Original_BoundaryBelongsToLayerBelow ==
    (IsFiveLayer /\ Len(profile.table.rows) = 5 /\ AscendingBoundaries /\ IsHeightQuery) =>
        \A i \in InteriorBoundaryAt(result.h) :
           /\ result.status = "ok"
           /\ result.value = LayerValue(result.op, i - 1, result.h)

\* C11 as amended: a query at the height of row i (i = 2..5) of a five-layer
\* instance with ascending boundaries is evaluated with layer i, the layer
\* that starts at that boundary: a boundary belongs to the layer above it.
C11_BoundaryBelongsToLayerAbove ==
    (IsFiveLayer /\ Len(profile.table.rows) = 5 /\ AscendingBoundaries /\ IsHeightQuery) =>
        \A i \in InteriorBoundaryAt(result.h) :
           /\ result.status = "ok"
           /\ result.value = LayerValue(result.op, i, result.h)

C11_Witness ==
    /\ IsFiveLayer /\ Len(profile.table.rows) = 5 /\ AscendingBoundaries
    /\ result.op = "__call__" /\ result.arg = Quantity(10, "km")
    /\ InteriorBoundaryAt(result.h) = {3}
    /\ result.status = "ok"
    /\ result.value = LayerValue("__call__", 3, 10000)
    /\ result.value /= LayerValue("__call__", 2, 10000)

\* C12: for a five-layer instance and a height h that falls in some layer,
\* density(h) is minus the derivative function of the layer whose function
\* integral(h) evaluates, bound to the same a, b and c.
C12_DensityAndIntegralUseSameLayer ==
    (IsFiveLayer /\ IsHeightQuery
        /\ which_func_of(profile, result.h).status = "ok"
        /\ which_func_of(profile, result.h).value \in 0..4) =>
        LET h == result.h
            k == which_func_of(profile, h).value + 1
            den == FiveLayer_call(profile, h, Ok(0))
            col == FiveLayer_integral(profile, h, Ok(0))
            f == profile.funcs[k]
        IN  /\ result.status = "ok"
            /\ den.status = "ok" /\ col.status = "ok"
            /\ result.op = "__call__" => result.value = den.value
            /\ result.op = "integral" => result.value = col.value
            /\ col.value = Apply(f, h)
            /\ den.value = (-1) * Apply(profile.d_funcs[k], h)
            /\ profile.d_funcs[k].a = f.a /\ profile.d_funcs[k].b = f.b
            /\ profile.d_funcs[k].c = f.c
            /\ (k <= 4) = (f.f = "_exponential" /\ profile.d_funcs[k].f = "_d_exponential")
            /\ (k = 5) = (f.f = "_linear" /\ profile.d_funcs[k].f = "_d_linear")

C12_Witness ==
    /\ IsFiveLayer /\ AscendingBoundaries
    /\ result.op = "__call__" /\ result.arg = Quantity(40000, "m")
    /\ result.status = "ok" /\ result.value > 0
    /\ which_func_of(profile, 40000).value = 3
    /\ result.value = (-1) * Apply(profile.d_funcs[4], 40000)
    /\ FiveLayer_integral(profile, 40000, Ok(0)).value = Apply(profile.funcs[4], 40000)
    /\ result.value /= (-1) * Apply(profile.d_funcs[3], 40000)

\* C13: for a tabulated instance and every stored row, density(row.height)
\* reproduces row.density and integral(row.height) reproduces
\* row.column_density to a thousandth.
C13_TableReproducesItsRows ==
    IsTable =>
        \A i \in 1..Len(profile.table.rows) :
           LET row == profile.table.rows[i]
               den == Table_call(profile, MetresOfRow(profile.table, i))
               col == Table_integral(profile, MetresOfRow(profile.table, i))
           IN  /\ den.status = "ok" /\ col.status = "ok"
               /\ Abs(den.value - row.density) * 1000 <= row.density
               /\ Abs(col.value - row.column_density) * 1000 <= row.column_density
               /\ (IsHeightQuery /\ result.h = MetresOfRow(profile.table, i)) =>
                     /\ result.status = "ok"
                     /\ result.op = "__call__" => result.value = den.value
                     /\ result.op = "integral" => result.value = col.value

C13_Witness ==
    /\ IsTable
    /\ result.op = "integral" /\ result.arg = Quantity(10, "km")
    /\ \E i \in 1..Len(profile.table.rows) :
          /\ profile.table.rows[i].height = 10000
          /\ profile.table.rows[i].column_density = 284000
    /\ result.status = "ok"
    /\ Abs(result.value - 284000) <= 284
    /\ result.value > 0

\* the rows of the table of the instance with every length in metres
RowsInMetres ==
    [i \in 1..Len(profile.table.rows) |->
        LET row == profile.table.rows[i]
        IN  LRow(to_length(row.height, profile.table.length_unit), row.a, row.b,
                 to_length(row.c, profile.table.length_unit), row.inv_c)]

\* x and y agree at the boundary of the rows i - 1 and i: they differ by no
\* more than the last digit of exp leaves open in b * exp(-h/c) of the two
\* rows, and two units of the model
Agree(i, x, y) ==
    LET rows == profile.table.rows
    IN  Abs(x - y) <= (Abs(rows[i - 1].b) + Abs(rows[i].b)) \div Scale + 2

\* the layers below and above every interior boundary agree there
LayersMeet ==
    \A i \in 2..5 :
       LET H == Boundaries(profile)[i]
       IN  Agree(i, Apply(profile.funcs[i - 1], H), Apply(profile.funcs[i], H))

\* C14 as stated: for every five-layer instance with ascending boundaries
\* the layers below and above each interior boundary agree at it.
C14_Original_LayersMeetAtBoundaries ==
    (IsFiveLayer /\ Len(profile.table.rows) = 5 /\ AscendingBoundaries) => LayersMeet

\* the value at h of the parametrisation of a table row: exponential for
\* the rows 1..4, linear for row 5
RowValue(rows, i, h) ==
    IF i <= 4 THEN rows[i].a + MulDiv(rows[i].b, np_exp(NegRatio(h, rows[i].c)), Scale)
    ELSE rows[i].a - MulDiv(rows[i].b, h, rows[i].c)

\* the parametrisation the table holds is continuous: the rows i - 1 and i
\* give the same column density at the height of row i
ContinuousTable ==
    /\ Len(profile.table.rows) >= 5
    /\ \A i \in 2..5 :
          Agree(i, RowValue(RowsInMetres, i - 1, RowsInMetres[i].height),
                RowValue(RowsInMetres, i, RowsInMetres[i].height))

\* C14 as amended: for a five-layer instance with ascending boundaries
\* built from a table whose parametrisation is continuous, the layers
\* below and above each interior boundary agree at it, and integral at the
\* boundary is the value of the layer above, so within the tolerance of
\* the layer below too.
C14_FittedLayersMeetAtBoundaries ==
    (IsFiveLayer /\ AscendingBoundaries /\ ContinuousTable) =>
        /\ LayersMeet
        /\ \A i \in 2..5 :
              LET H == Boundaries(profile)[i]
                  col == FiveLayer_integral(profile, H, Ok(0))
              IN  /\ col.status = "ok"
                  /\ Agree(i, col.value, Apply(profile.funcs[i - 1], H))
                  /\ (result.op = "integral" /\ result.arg.unit \in LengthUnits
                         /\ result.h = H) =>
                        Agree(i, result.value, Apply(profile.funcs[i - 1], H))

C14_Witness ==
    /\ IsFiveLayer /\ RowsInMetres = LayersA
    /\ AscendingBoundaries /\ ContinuousTable
    /\ profile.table.length_unit = "cm"
    /\ result.op = "integral" /\ result.arg = Quantity(40, "km")
    /\ result.status = "ok"
    /\ result.value = Apply(profile.funcs[4], 40000)
    /\ result.value /= Apply(profile.funcs[3], 40000)
    /\ Agree(4, result.value, Apply(profile.funcs[3], 40000))

QueryOps == {"__call__", "integral", "line_of_sight_integral"}

\* C15: a query of density, integral or line_of_sight_integral, whether it
\* returns or raises, leaves every stored field of the instance as it was.
C15_QueriesLeaveInstanceUnchanged ==
    [][(result'.op \in QueryOps /\ result' /= result) => profile' = profile]_vars

\* the instance as its constructor builds it from the data it stores
Rebuilt(self) ==
    IF self.kind = "ExponentialAtmosphereDensityProfile"
    THEN ExponentialProfile(self.h0, self.rho0)
    ELSE IF self.kind = "TableAtmosphereDensityProfile" THEN Table_init(self.table).value
    ELSE FiveLayer_init(self.table).value

C15_Witness ==
    /\ IsTable
    /\ result.op = "integral" /\ result.status = "ValueError"
    /\ result.arg = Quantity(40, "km")
    /\ Len(profile.table.rows) = 4
    /\ Len(profile.density_interp.x) = 4 /\ Len(profile.col_density_interp.x) = 4
    /\ profile = Rebuilt(profile)

\* the query of a frame run alone on the instance
RunAlone(self, f, unselected) ==
    IF f.op = "__call__" THEN density_of(self, f.h, unselected)
    ELSE IF f.op = "integral" THEN integral_of(self, f.h, unselected)
    ELSE call_line_of_sight_integral(self, f.h, f.zenith, unselected)

\* C16: whatever the interleaving of the threads, the shared instance stays
\* as constructed and every query that has its value holds the value the
\* same query yields alone on a freshly constructed instance.
C16_ConcurrentQueriesAsAlone ==
    /\ profile \in SharedProfiles
    /\ \A t \in ThreadIds :
          threads[t].pc = "done" =>
             \E u \in UnselectedOutcomes :
                threads[t].ret = RunAlone(Rebuilt(profile), threads[t], u)

C16_Witness ==
    /\ IsFiveLayer
    /\ threads["t1"].pc = "done" /\ threads["t2"].pc = "done"
    /\ threads["t1"].op = "integral" /\ threads["t1"].h = 4000
    /\ threads["t2"].op = "__call__" /\ threads["t2"].h = 20000
    /\ threads["t1"].which_func /= threads["t2"].which_func
    /\ threads["t1"].ret = FiveLayer_integral(profile, 4000, Ok(0))
    /\ threads["t2"].ret = FiveLayer_call(profile, 20000, Ok(0))

\* C17: density and integral of every variant raise UnitsError, before their
\* body runs and without a value, for a height that is no length; a height
\* in m, km or cm is accepted and ends as the same height in metres does.
C17_HeightMustBeLength ==
    result.op \in {"__call__", "integral"} =>
        /\ result.arg.unit \notin LengthUnits =>
              /\ result.status = "UnitsError"
              /\ result.value = 0
              /\ result.steps = <<"quantity_input">>
        /\ result.arg.unit \in LengthUnits =>
              /\ result.status /= "UnitsError"
              /\ result.steps = <<"quantity_input", "body">>
              /\ result.h = (IF result.arg.unit = "km" THEN result.arg.value * 1000
                             ELSE IF result.arg.unit = "cm" THEN result.arg.value \div 100
                             ELSE result.arg.value)
              /\ \E u \in UnselectedOutcomes :
                    Matches(IF result.op = "__call__" THEN density_of(profile, result.h, u)
                            ELSE integral_of(profile, result.h, u))

C17_Witness ==
    /\ IsTable
    /\ result.op = "integral"
    /\ result.arg = Quantity(5, "kg")
    /\ result.status = "UnitsError"
    /\ Table_integral(profile, 5).status = "ok"

\* C18: an exponential instance constructed without arguments has
\* h0 = 8 km and rho0 = 0.00125 g/cm3, density(0) = 0.00125 g/cm3 and
\* integral(0) = 1000 g/cm2; a parameter given replaces its own default only.
C18_ExponentialDefaults ==
    /\ (result.op = "__init__" /\ IsExponential) =>
          /\ profile.h0 = (IF result.arg.h0_given THEN result.arg.h0 ELSE 8000)
          /\ profile.rho0 = (IF result.arg.rho0_given THEN result.arg.rho0 ELSE 1250000)
          /\ (~result.arg.h0_given /\ ~result.arg.rho0_given) =>
                /\ Exponential_call(profile, 0) = Ok(1250000)
                /\ Exponential_integral(profile, 0) = Ok(1000000)
    /\ ExponentialProfile(Default_h0, Default_rho0).h0 = 8000
    /\ ExponentialProfile(Default_h0, Default_rho0).rho0 = 1250000

C18_Witness ==
    /\ result.op = "__init__" /\ IsExponential
    /\ ~result.arg.h0_given /\ result.arg.rho0_given
    /\ result.arg.rho0 = 1000000
    /\ profile.h0 = 8000 /\ profile.rho0 = 1000000
    /\ Exponential_integral(profile, 0) = Ok(800000)

\* C19 as stated: no operation on an exponential instance changes its h0 or
\* rho0; an assignment to either attribute leaves it as it was.
C19_ExponentialParametersFixed ==
    result.op = "__setattr__" =>
        /\ IsExponential
        /\ profile[result.arg.name] = result.arg.before

\* C20 as stated: every five-layer instance holds a table of exactly 5 rows
\* with 5 column-density and 5 derivative functions, and a table of another
\* number of rows yields no instance.
C20_FiveLayerHoldsFiveRows ==
    /\ IsFiveLayer =>
          /\ Len(profile.table.rows) = 5
          /\ Len(profile.funcs) = 5 /\ Len(profile.d_funcs) = 5
    /\ (result.op \in {"__init__", "from_array"}
           /\ result.impl = "FiveLayerAtmosphereDensityProfile"
           /\ result.op = "__init__" /\ Len(result.arg.rows) /= 5) =>
          /\ result.status /= "ok"
          /\ profile = NoProfile

\* the heights of the rows a table instance holds, in metres
RetainedHeights == {MetresOfRow(profile.table, i) : i \in 1..Len(profile.table.rows)}

\* h lies strictly below or strictly above every retained height
OutsideRetained(h) ==
    \/ \A x \in RetainedHeights : h < x
    \/ \A x \in RetainedHeights : h > x

\* the height of row i of the table handed to the constructor, in metres
InputHeight(i) == MetresOfRow(result.arg, i)

\* C21: density and integral of a table instance raise ValueError, with no
\* value, at every height strictly below the smallest or above the largest
\* height of the retained rows; the height of a row the filter dropped does
\* not extend that domain; the instance stays as constructed.
C21_TableDomainIsRetainedRows ==
    /\ (IsTable /\ result.op \in {"__call__", "integral"}
           /\ result.arg.unit \in LengthUnits /\ OutsideRetained(result.h)) =>
          /\ result.status = "ValueError"
          /\ result.value = 0
          /\ profile = Rebuilt(profile)
    /\ (IsTable /\ result.op = "__init__") =>
          \A i \in 1..Len(result.arg.rows) :
             (i \notin ValidPositions(result.arg.rows) /\ OutsideRetained(InputHeight(i))) =>
                /\ Table_call(profile, InputHeight(i)).status = "ValueError"
                /\ Table_integral(profile, InputHeight(i)).status = "ValueError"

C21_Witness ==
    /\ IsTable
    /\ result.op = "__init__" /\ result.status = "ok"
    /\ Len(result.arg.rows) = 7 /\ Len(profile.table.rows) = 4
    /\ \E i \in 1..7 : InputHeight(i) = 30000
    /\ \E i \in 1..7 : InputHeight(i) = 0 - 1000
    /\ RetainedHeights = {0, 5000, 10000, 20000}
    /\ Table_integral(profile, 30000).status = "ValueError"
    /\ Table_call(profile, 0 - 1000).status = "ValueError"
    /\ Table_integral(profile, 20000).status = "ok"

\* a density or integral query of a five-layer instance with ascending
\* boundaries at a height strictly below the lowest boundary
BelowLowestBoundary ==
    /\ IsFiveLayer /\ AscendingBoundaries
    /\ result.op \in {"__call__", "integral"}
    /\ result.arg.unit \in LengthUnits
    /\ result.h < Boundaries(profile)[1]

\* C22 as stated: below the lowest boundary of a five-layer instance with
\* ascending boundaries density and integral return the unset default, zero.
C22_Original_BelowLowestBoundaryIsZero ==
    BelowLowestBoundary => (result.status = "ok" /\ result.value = 0)

\* C22: below the lowest boundary of a five-layer instance with ascending
\* boundaries no layer is selected, no layer function is evaluated and no
\* domain error is raised: the query either returns the unset zero or fails
\* with the IndexError of a piecewise evaluation that has no piece.
C22_BelowLowestBoundaryNoLayer ==
    BelowLowestBoundary =>
        /\ which_func_of(profile, result.h) = Ok(0 - 1)
        /\ \E u \in UnselectedOutcomes : Matches(u)
        /\ result.status \in {"ok", "IndexError"}
        /\ result.value = 0

C22_Witness ==
    /\ BelowLowestBoundary
    /\ result.op = "integral" /\ result.h = 0 - 2000
    /\ result.status = "IndexError"
    /\ Apply(profile.funcs[1], 0 - 2000) > 0

\* C23: line_of_sight_integral does not check the zenith angle.  At 90 deg
\* it raises no error of its own and substitutes no value: it ends with the
\* error integral raises at the projected height, or with the quotient of
\* that integral by a cosine that is nil, beyond every column density.
C23_HorizonNotChecked ==
    (result.op = "line_of_sight_integral" /\ result.zenith = 90) =>
        \E u \in UnselectedOutcomes :
           LET x == VariantIntegral(0, u)
           IN  /\ x.status /= "ok" => Matches(x)
               /\ x.status = "ok" =>
                     /\ result.status = "ok"
                     /\ x.value > 0 => result.value >= VeryLarge
                     /\ x.value < 0 => result.value <= 0 - VeryLarge

C23_Witness ==
    /\ IsTable
    /\ result.op = "line_of_sight_integral"
    /\ result.zenith = 90 /\ result.h = 20000
    /\ Table_integral(profile, 0).status = "ok"
    /\ Table_integral(profile, 0).value > 0
    /\ result.status = "ok"
    /\ result.value = VeryLarge

\* the table of a table instance with its heights told in metres
TableInMetres ==
    [length_unit |-> "m", colnames |-> profile.table.colnames,
     rows |-> [i \in 1..Len(profile.table.rows) |->
                  [profile.table.rows[i] EXCEPT
                      !.height = IF profile.table.length_unit = "km" THEN @ * 1000 ELSE @]]]

\* the height of the argument of a query, in metres
ArgInMetres ==
    IF result.arg.unit = "km" THEN result.arg.value * 1000
    ELSE IF result.arg.unit = "cm" THEN result.arg.value \div 100
    ELSE result.arg.value

\* C24: a table instance answers by the physical height only: the instance
\* of a table in km has the interpolators of the instance of the same table
\* in m, and a query in m, km or cm ends as the query of the same height
\* does on the instance of the table in m.
C24_TableUnitIndependent ==
    IsTable =>
        LET m == Table_init(TableInMetres)
        IN  /\ m.status = "ok"
            /\ m.value.density_interp = profile.density_interp
            /\ m.value.col_density_interp = profile.col_density_interp
            /\ (result.op \in {"__call__", "integral"} /\ result.arg.unit \in LengthUnits) =>
                  Matches(IF result.op = "__call__" THEN Table_call(m.value, ArgInMetres)
                          ELSE Table_integral(m.value, ArgInMetres))

C24_Witness ==
    /\ IsTable
    /\ profile.table.length_unit = "km"
    /\ result.op = "integral" /\ result.arg = Quantity(4000, "m")
    /\ result.status = "ok"
    /\ result.value = Table_integral(Table_init(TableInMetres).value, 4000).value
    /\ result.value = Table_integral(profile, 4000).value
    /\ result.value > 0

\* the (5, 5) array of the table of an instance built by from_array
ArrayOf(table) ==
    [shape |-> <<Len(table.rows), 5>>,
     data |-> [i \in 1..Len(table.rows) |->
                  <<table.rows[i].height, table.rows[i].a, table.rows[i].b,
                    table.rows[i].c, table.rows[i].inv_c>>]]

\* values of a fifth column
FifthColumns == {3, 7, 129500}

\* C25: (5, 5) arrays that agree in their columns 1 to 4 and differ in the
\* fifth give instances of the same functions and boundaries, whose density
\* and integral end alike at every height: the fifth column is stored and
\* never read.
C25_FifthColumnNeverRead ==
    (IsFiveLayer /\ profile.table.colnames = ArrayColumns) =>
        \A v \in FifthColumns :
           LET other == FiveLayer_from_array(WithFifthColumn(ArrayOf(profile.table), v))
           IN  /\ other.status = "ok"
               /\ \A i \in 1..5 : other.value.table.rows[i].inv_c = v
               /\ other.value.funcs = profile.funcs
               /\ other.value.d_funcs = profile.d_funcs
               /\ Boundaries(other.value) = Boundaries(profile)
               /\ (result.op \in {"__call__", "integral"}
                      /\ result.arg.unit \in LengthUnits) =>
                     \E u \in UnselectedOutcomes :
                        Matches(IF result.op = "__call__"
                                THEN FiveLayer_call(other.value, result.h, u)
                                ELSE FiveLayer_integral(other.value, result.h, u))

C25_Witness ==
    /\ IsFiveLayer
    /\ \A i \in 1..5 : profile.table.rows[i].inv_c = 7
    /\ result.op = "integral" /\ result.h = 4000
    /\ result.status = "ok"
    /\ result.value =
          FiveLayer_integral(FiveLayer_from_array(Array2D(LayersA, 5)).value, 4000, Ok(0)).value
    /\ FiveLayer_from_array(Array2D(LayersA, 5)).value.table.rows[1].inv_c = 100584
    /\ result.value > 0

\* heights far above every boundary
FarHeights == {10 ^ 6, 2 * 10 ^ 6}

\* the parameters of row 5, c in metres
TopRow ==
    [a |-> profile.table.rows[5].a, b |-> profile.table.rows[5].b,
     c |-> IF profile.table.length_unit = "cm" THEN profile.table.rows[5].c \div 100
           ELSE profile.table.rows[5].c]

\* C26: every height at or above the top boundary (row 5) of a five-layer
\* instance with ascending boundaries selects the fifth, linear layer,
\* however large the height: integral(h) = a5 - b5 * h / c5 and
\* density(h) = b5 / c5.
C26_TopLayerLinearUnbounded ==
    (IsFiveLayer /\ AscendingBoundaries /\ Len(profile.table.rows) = 5) =>
        /\ \A h \in FarHeights \cup {Boundaries(profile)[5]} :
              \A u \in UnselectedOutcomes :
                 /\ which_func_of(profile, h) = Ok(4)
                 /\ FiveLayer_integral(profile, h, u)
                       = Ok(TopRow.a - MulDiv(TopRow.b, h, TopRow.c))
                 /\ FiveLayer_call(profile, h, u)
                       = Ok(MulDiv(TopRow.b, ColumnPerLengthToDensity, TopRow.c))
        /\ (result.op \in {"__call__", "integral"} /\ result.arg.unit \in LengthUnits
               /\ result.h >= Boundaries(profile)[5]) =>
              /\ result.status = "ok"
              /\ result.value =
                    (IF result.op = "integral"
                     THEN TopRow.a - MulDiv(TopRow.b, result.h, TopRow.c)
                     ELSE MulDiv(TopRow.b, ColumnPerLengthToDensity, TopRow.c))

C26_Witness ==
    /\ IsFiveLayer /\ AscendingBoundaries /\ Len(profile.table.rows) = 5
    /\ result.op = "integral" /\ result.h = 110000
    /\ Boundaries(profile)[5] = 100000
    /\ result.status = "ok"
    /\ result.value = 0
    /\ FiveLayer_integral(profile, 100000, Ok(0)) = Ok(1)
    /\ FiveLayer_integral(profile, 2 * 10 ^ 6, Ok(0)) = Ok(0 - 189)

UserTargets == {loader.rename_columns[i][2] : i \in 1..Len(loader.rename_columns)}

\* the columns among the four for which no pair of rename_columns names
\* the column and the standard column is not in the events
Uncovered ==
    {c \in {"reco_energy", "reco_az", "reco_alt", "gh_score"} :
        c \notin UserTargets /\ standard_renames(c) \notin loader.file.colnames}

\* C28 as stated: normalise_column_names returns a table that has the
\* columns reco_energy, reco_az, reco_alt and gh_score, or raises
\* ValueError; it raises exactly when one of the four is named by no pair
\* of rename_columns and its standard column is not in the events.  Taken
\* for events that hold the five columns kept under their own names.
C28_ReturnsTableOrValueError ==
    (loader.normalised.called
        /\ {"obs_id", "event_id", "true_energy", "true_az", "true_alt"}
              \subseteq loader.file.colnames) =>
        /\ loader.normalised.status \in {"ok", "ValueError"}
        /\ loader.normalised.status = "ok" =>
              {"reco_energy", "reco_az", "reco_alt", "gh_score"}
                 \subseteq Range(loader.normalised.colnames)
        /\ loader.normalised.status = "ValueError" <=> Uncovered /= {}

\* the event_id of the events of the file at the positions lo..hi that the
\* quality criteria let through
Preselected(lo, hi) ==
    SubSeqAt([i \in 1..Len(loader.file.events) |-> loader.file.events[i].event_id],
             {i \in lo..hi : i <= Len(loader.file.events) /\ loader.file.events[i].passes}, 1)

\* the number of events in the chunks 1..k
ReadUpTo(k) ==
    IF k * loader.chunk_size < Len(loader.file.events) THEN k * loader.chunk_size
    ELSE Len(loader.file.events)

\* C29: after the k-th chunk of load_preselected_events n_raw_events is the
\* number of events of the chunks 1..k before the preselection and bits is
\* the header followed by the preselected rows of the chunks 1..k in their
\* order; the count returned is that of the events read, and the table
\* returned has the rows that passed the mask, and no other.
C29_CountsReadKeepsPreselected ==
    /\ loader.pc = "loop" =>
          /\ loader.n_raw_events = ReadUpTo(loader.k)
          /\ Len(loader.bits) = loader.k + 1
          /\ loader.bits[1].rows = <<>>
          /\ \A i \in 1..loader.k :
                loader.bits[i + 1].rows
                   = Preselected((i - 1) * loader.chunk_size + 1, i * loader.chunk_size)
    /\ loader.pc = "returned" =>
          /\ loader.ret.n_raw_events = Len(loader.file.events)
          /\ loader.ret.table.rows = Preselected(1, Len(loader.file.events))
          /\ loader.bits[Len(loader.bits)].rows = <<>>

C29_Witness ==
    /\ loader.pc = "returned"
    /\ loader.chunk_size = 2 /\ loader.k = 2
    /\ Len(loader.file.events) = 3
    /\ loader.file.events[1].passes /\ ~loader.file.events[2].passes
    /\ loader.file.events[3].passes
    /\ loader.ret.n_raw_events = 3
    /\ loader.ret.table.rows = <<1, 3>>
    /\ Len(loader.bits) = 4

\* C30 as stated: for every number n >= 1 of telescopes the grid
\* decide_on_subplot_layout(n) gives has nx * ny >= n axes, and
\* layout_figures draws every telescope of a camera on an axis.
C30_EveryTelescopeGetsAnAxis ==
    \A i \in 1..Len(plot.figures) :
       /\ plot.figures[i].nx * plot.figures[i].ny >= plot.tels[i]
       /\ plot.figures[i].drawn = plot.tels[i]
=============================================================================
